---- MODULE Spec2Model ----
(***************************************************************************)
(* Model of the conversion handler of jmap-convert (src/src/main.rs).      *)
(*                                                                         *)
(* The state is the six reactive signals created in App() plus the reply   *)
(* the calcard library gave to the parse call of the latest invocation.    *)
(* Text is a sequence of tokens: the whitespace character, the markers     *)
(* convert() tests for, and "x" for any other content.  The empty string   *)
(* is the empty sequence.  The calcard library is outside the repository:  *)
(* its replies are inputs of the handler, drawn from small sets.           *)
(***************************************************************************)
EXTENDS Integers, Sequences, FiniteSets, TLC

VARIABLES source, source_type, conversion, roundtrip_conversion,
          error_message, occurrences, lib, writes

vars == <<source, source_type, conversion, roundtrip_conversion,
          error_message, occurrences, lib, writes>>

----------------------------------------------------------------------------
(* Bounds of the model *)

\* longest run of whitespace put before or after an input text
MaxPad == 1
\* most instances in an explicitly listed expansion
MaxEvents == 2
\* latest start instant (in minutes) of an explicitly listed instance
MaxInstant == 1
\* instances of the recurring calendar before the library's cap
MaxCount == 27

----------------------------------------------------------------------------
(* Text *)

WS == " "
BeginMarker == "BEGIN:"
Brace == "{"
GroupKey == "\"Group\""
CardKey == "\"Card\""
Other == "x"

EmptyString == <<>>

is_empty(str) == Len(str) = 0

RECURSIVE trim_start(_)
trim_start(str) ==
    IF Len(str) = 0 THEN str
    ELSE IF Head(str) = WS THEN trim_start(Tail(str))
    ELSE str

starts_with(str, pat) == Len(str) > 0 /\ Head(str) = pat

contains(str, pat) == \E i \in 1..Len(str) : str[i] = pat

----------------------------------------------------------------------------
(* The signals, gathered in a record while a handler runs.  writes counts  *)
(* the set() calls made on each output signal since the handler started.   *)

Signals == {"source_type", "conversion", "roundtrip_conversion",
            "error_message", "occurrences"}

NoWrites == [f \in Signals |-> 0]

Cur == [source |-> source, source_type |-> source_type,
        conversion |-> conversion,
        roundtrip_conversion |-> roundtrip_conversion,
        error_message |-> error_message, occurrences |-> occurrences,
        writes |-> writes]

\* RwSignal::set
SignalSet(s, f, v) == [s EXCEPT ![f] = v, !.writes[f] = @ + 1]

----------------------------------------------------------------------------
(* SourceType *)

SourceTypes == {"ICalendar", "JSCalendar", "VCard", "JSContact"}

\* mutant: the contact formats are paired with themselves
counterpart_unpaired(t) ==
    CASE t = "ICalendar" -> "JSCalendar"
      [] t = "JSCalendar" -> "ICalendar"
      [] t = "VCard" -> "VCard"
      [] t = "JSContact" -> "VCard"

counterpart(t) ==
    CASE t = "ICalendar" -> "JSCalendar"
      [] t = "JSCalendar" -> "ICalendar"
      [] t = "VCard" -> "JSContact"
      [] t = "JSContact" -> "VCard"

----------------------------------------------------------------------------
(* Error messages, as the pieces format!() joins *)

BugMessage ==
    <<"Looks like you've found a bug in the conversion. Please report it.">>
UnrecognizedMessage ==
    <<"Unrecognized format. Please provide a valid iCalendar, JSCalendar, vCard or JSContact file.">>

\* mutant: the JSON fallback reports the generic message
NotJsonMessage_generic == UnrecognizedMessage

NotJsonMessage ==
    <<"This does not look like a valid JSCalendar or JSContact.">>

\* mutant: the error is set and the result is left in place
set_error_keeps_result(s, msg) == SignalSet(s, "error_message", msg)

set_error(s, msg) ==
    LET s1 == SignalSet(s, "error_message", msg)
        s2 == SignalSet(s1, "conversion", EmptyString)
        s3 == SignalSet(s2, "roundtrip_conversion", EmptyString)
    IN  SignalSet(s3, "occurrences", <<>>)

----------------------------------------------------------------------------
(* The calcard library, as convert() consumes it.  A calendar is           *)
(* represented by the instances its recurrence expansion yields, in the    *)
(* order the library emits them.  Instants are minutes.                    *)

TzFloating == "Tz::Floating"
Tokyo == "Asia/Tokyo"
Unzoned == "unzoned"

\* an instance with a concrete start/end pair
DateTimeInstance(start, tz) ==
    [dt |-> TRUE, start |-> start, end |-> start + 30, tz |-> tz]
\* an instance try_into_date_time() cannot convert
PartialInstance == [dt |-> FALSE, start |-> 0, end |-> 0, tz |-> Unzoned]

\* ICalendar::expand_dates(default_tz, limit): at most limit instances,
\* those without a zone resolved with default_tz
RECURSIVE expand_dates(_, _, _)
expand_dates(instances, default_tz, limit) ==
    IF Len(instances) = 0 \/ limit = 0 THEN <<>>
    ELSE <<IF Head(instances).tz = Unzoned
           THEN [Head(instances) EXCEPT !.tz = default_tz]
           ELSE Head(instances)>>
         \o expand_dates(Tail(instances), default_tz, limit - 1)

\* CalendarEvent::try_into_date_time, as an Option
try_into_date_time(event) == IF event.dt THEN <<event>> ELSE <<>>

\* Tz::name, as an Option
name(tz) == IF tz = TzFloating THEN <<>> ELSE <<tz>>

unwrap_or(opt, default) == IF Len(opt) = 0 THEN default ELSE opt[1]

UtcOffset(tz) == IF tz = Tokyo THEN 9 * 60 ELSE 0

\* format!("{} ({})", t.format("%a %b %-d, %Y %-I:%M%P"), zone name): the
\* local wall-clock minute of the instant in its own zone, and the label
Format(t, tz) ==
    [local |-> t + UtcOffset(tz), zone |-> unwrap_or(name(tz), "Floating")]

\* Display for the parsed and converted values
to_string_pretty(kind) == <<kind, "pretty JSON">>
to_string(kind) == <<kind, "text">>

----------------------------------------------------------------------------
(* set_occurrences *)

RECURSIVE filter_map(_)
filter_map(events) ==
    IF Len(events) = 0 THEN <<>>
    ELSE try_into_date_time(Head(events)) \o filter_map(Tail(events))

RemoveAt(seq, i) == SubSeq(seq, 1, i - 1) \o SubSeq(seq, i + 1, Len(seq))

\* the least start among events, a non-empty sequence
EarliestStart(events) ==
    LET starts == {events[i].start : i \in 1..Len(events)}
    IN  CHOOSE m \in starts : \A k \in starts : m <= k

\* mutant: the events are left in the order of emission
sort_unstable_by_unsorted(events) == {events}

\* sort_unstable_by(|a, b| a.start.cmp(&b.start)): the results the sort may
\* give, every arrangement ascending by start; the order of events with
\* equal starts is not specified
RECURSIVE sort_unstable_by(_)
RECURSIVE SortedFrom(_, _)
SortedFrom(events, least) ==
    UNION {{<<events[i]>> \o rest :
               rest \in sort_unstable_by(RemoveAt(events, i))} :
           i \in {j \in 1..Len(events) : events[j].start = least}}

sort_unstable_by(events) ==
    IF Len(events) = 0 THEN {<<>>}
    ELSE SortedFrom(events, EarliestStart(events))

Occurrence(event) ==
    [from |-> Format(event.start, event.tz), to |-> Format(event.end, event.tz)]

RECURSIVE map_Occurrence(_)
map_Occurrence(events) ==
    IF Len(events) = 0 THEN <<>>
    ELSE <<Occurrence(Head(events))>> \o map_Occurrence(Tail(events))

\* the states set_occurrences may leave, one per result of the sort
set_occurrences(s, expanded) ==
    {SignalSet(s, "occurrences", map_Occurrence(events)) :
        events \in sort_unstable_by(filter_map(expanded))}

----------------------------------------------------------------------------
(* Replies of the library to the parse call convert() makes.  One record   *)
(* shape serves the three parsers:                                         *)
(*   call       the entry point called, "none" when convert() calls none   *)
(*   kind       the Entry variant, or "Ok" / "Err" for the JSON parsers    *)
(*   detail     the texts the variant carries                              *)
(*   conv       whether the conversion of the value into the legacy        *)
(*              family (into_vcard, into_icalendar) yields Some            *)
(*   instances  the instances of the calendar, before expansion            *)

Reply(call, kind, detail, conv, instances) ==
    [call |-> call, kind |-> kind, detail |-> detail, conv |-> conv,
     instances |-> instances]

NoReply == Reply("none", "none", <<>>, FALSE, <<>>)

Lines == {"l1", "l2"}
Components == {"VEVENT", "VCARD"}
ParseErrors == {"e1"}

\* Parser::new(source).entry() over calendars Cals
Entries(Cals) ==
    {Reply("Parser::entry", "VCard", <<>>, c, <<>>) : c \in BOOLEAN}
    \cup {Reply("Parser::entry", "ICalendar", <<>>, c, cal) :
            c \in BOOLEAN, cal \in Cals}
    \cup {Reply("Parser::entry", "InvalidLine", <<l>>, FALSE, <<>>) : l \in Lines}
    \cup {Reply("Parser::entry", "UnexpectedComponentEnd", <<e, f>>, FALSE, <<>>) :
            e \in Components, f \in Components}
    \cup {Reply("Parser::entry", "UnterminatedComponent", <<c>>, FALSE, <<>>) :
            c \in Components}
    \cup {Reply("Parser::entry", "TooManyComponents", <<>>, FALSE, <<>>),
          Reply("Parser::entry", "Eof", <<>>, FALSE, <<>>)}

\* JSCalendar::parse over calendars Cals
JSCalendarResults(Cals) ==
    {Reply("JSCalendar::parse", "Err", <<e>>, FALSE, <<>>) : e \in ParseErrors}
    \cup {Reply("JSCalendar::parse", "Ok", <<>>, FALSE, <<>>)}
    \cup {Reply("JSCalendar::parse", "Ok", <<>>, TRUE, cal) : cal \in Cals}

\* JSContact::parse
JSContactResults ==
    {Reply("JSContact::parse", "Err", <<e>>, FALSE, <<>>) : e \in ParseErrors}
    \cup {Reply("JSContact::parse", "Ok", <<>>, c, <<>>) : c \in BOOLEAN}

----------------------------------------------------------------------------
(* convert *)

\* mutant: a limit one above the cap
ICalendarLimit_raised == 25 + 1

\* limit passed to expand_dates for an iCalendar source
ICalendarLimit == 25
\* limit passed to expand_dates for a JSCalendar source
JSCalendarLimit == 25

\* mutant: a failed round trip only annotates the result
VCardArm_soft(s, entry) ==
    LET s1 == SignalSet(s, "source_type", "VCard")
        s2 == SignalSet(s1, "conversion", to_string_pretty("JSContact"))
    IN  IF entry.conv
        THEN {SignalSet(s2, "roundtrip_conversion", to_string("VCard"))}
        ELSE {SignalSet(s2, "error_message", BugMessage)}

\* Entry::VCard(vcard) arm
VCardArm(s, entry) ==
    LET s1 == SignalSet(s, "source_type", "VCard")
        s2 == SignalSet(s1, "conversion", to_string_pretty("JSContact"))
    IN  IF entry.conv
        THEN {SignalSet(s2, "roundtrip_conversion", to_string("VCard"))}
        ELSE {set_error(s2, BugMessage)}

\* Entry::ICalendar(icalendar) arm
ICalendarArm(s, entry) ==
    LET s1 == SignalSet(s, "source_type", "ICalendar")
    IN  {LET s3 == SignalSet(s2, "conversion", to_string_pretty("JSCalendar"))
         IN  IF entry.conv
             THEN SignalSet(s3, "roundtrip_conversion", to_string("ICalendar"))
             ELSE set_error(s3, BugMessage) :
           s2 \in set_occurrences(
                    s1, expand_dates(entry.instances, TzFloating, ICalendarLimit))}

\* mutant: two variants share a message
EntryErrorMessage_merged(entry) ==
    CASE entry.kind = "InvalidLine" ->
            <<"Invalid line found: ", entry.detail[1]>>
      [] entry.kind = "UnexpectedComponentEnd" ->
            <<"Unexpected component end: expected ", entry.detail[1],
              ", found ", entry.detail[2]>>
      [] entry.kind = "UnterminatedComponent" ->
            <<"Unterminated component: ", entry.detail[1]>>
      [] entry.kind = "TooManyComponents" -> <<"Too many components">>
      [] entry.kind = "Eof" -> <<"Too many components">>

\* the message of each failing Entry variant
EntryErrorMessage(entry) ==
    CASE entry.kind = "InvalidLine" ->
            <<"Invalid line found: ", entry.detail[1]>>
      [] entry.kind = "UnexpectedComponentEnd" ->
            <<"Unexpected component end: expected ", entry.detail[1],
              ", found ", entry.detail[2]>>
      [] entry.kind = "UnterminatedComponent" ->
            <<"Unterminated component: ", entry.detail[1]>>
      [] entry.kind = "TooManyComponents" -> <<"Too many components">>
      [] entry.kind = "Eof" -> <<"Unexpected end of file">>

\* match Parser::new(source).entry().  The `_ => todo!()` arm is not
\* modelled: Entries lists every variant the parser returns.
LegacyBranch(s, entry) ==
    CASE entry.kind = "VCard" -> VCardArm(s, entry)
      [] entry.kind = "ICalendar" -> ICalendarArm(s, entry)
      [] OTHER -> {set_error(s, EntryErrorMessage(entry))}

\* match JSCalendar::parse(source.trim_end()); the text handed to the parser
\* is not represented, its result is an input
JSCalendarPath(s, result) ==
    IF result.kind = "Ok"
    THEN IF result.conv
         THEN LET s1 == SignalSet(s, "source_type", "JSCalendar")
                  s2 == SignalSet(s1, "conversion", to_string("ICalendar"))
              IN  {SignalSet(s3, "roundtrip_conversion",
                             to_string_pretty("JSCalendar")) :
                     s3 \in set_occurrences(
                              s2, expand_dates(result.instances, TzFloating,
                                               JSCalendarLimit))}
         ELSE {set_error(s, BugMessage)}
    ELSE {set_error(s, <<"Failed to parse JSCalendar: ", result.detail[1]>>)}

\* mutant: a parse failure is reported as a conversion bug
JSContactPath_bug(s, result) ==
    IF result.kind = "Ok"
    THEN IF result.conv
         THEN LET s1 == SignalSet(s, "source_type", "JSContact")
                  s2 == SignalSet(s1, "conversion", to_string("VCard"))
              IN  {SignalSet(s2, "roundtrip_conversion",
                             to_string_pretty("JSContact"))}
         ELSE {set_error(s, BugMessage)}
    ELSE {set_error(s, BugMessage)}

\* match JSContact::parse(source)
JSContactPath(s, result) ==
    IF result.kind = "Ok"
    THEN IF result.conv
         THEN LET s1 == SignalSet(s, "source_type", "JSContact")
                  s2 == SignalSet(s1, "conversion", to_string("VCard"))
              IN  {SignalSet(s2, "roundtrip_conversion",
                             to_string_pretty("JSContact"))}
         ELSE {set_error(s, BugMessage)}
    ELSE {set_error(s, <<"Failed to parse JSContact: ", result.detail[1]>>)}

\* mutant: the occurrences are not reset
ConvertReset_keeps_occurrences(s) ==
    SignalSet([s EXCEPT !.writes = NoWrites], "error_message", EmptyString)

\* the first statements of convert: occurrences and error_message are reset
ConvertReset(s) ==
    LET s1 == SignalSet([s EXCEPT !.writes = NoWrites], "occurrences", <<>>)
    IN  SignalSet(s1, "error_message", EmptyString)

\* mutant: the contact discriminator is looked for first
convert_card_first(s, reply) ==
    LET src == trim_start(s.source)
        s0 == ConvertReset(s)
    IN  IF is_empty(src) THEN {s0}
        ELSE IF starts_with(src, BeginMarker) THEN LegacyBranch(s0, reply)
        ELSE IF starts_with(src, Brace)
             THEN IF contains(src, CardKey) THEN JSContactPath(s0, reply)
                  ELSE IF contains(src, GroupKey) THEN JSCalendarPath(s0, reply)
                  ELSE {set_error(s0, NotJsonMessage)}
        ELSE {set_error(s0, UnrecognizedMessage)}

\* the states convert may leave from s when the library answers reply
convert(s, reply) ==
    LET src == trim_start(s.source)
        s0 == ConvertReset(s)
    IN  IF is_empty(src) THEN {s0}
        ELSE IF starts_with(src, BeginMarker) THEN LegacyBranch(s0, reply)
        ELSE IF starts_with(src, Brace)
             THEN IF contains(src, GroupKey) THEN JSCalendarPath(s0, reply)
                  ELSE IF contains(src, CardKey) THEN JSContactPath(s0, reply)
                  ELSE {set_error(s0, NotJsonMessage)}
        ELSE {set_error(s0, UnrecognizedMessage)}

\* the library entry point convert calls on a source text
Called(text) ==
    LET src == trim_start(text)
    IN  IF is_empty(src) THEN "none"
        ELSE IF starts_with(src, BeginMarker) THEN "Parser::entry"
        ELSE IF starts_with(src, Brace)
             THEN IF contains(src, GroupKey) THEN "JSCalendar::parse"
                  ELSE IF contains(src, CardKey) THEN "JSContact::parse"
                  ELSE "none"
        ELSE "none"

\* the replies the library may give to the call made on text
Replies(text, Cals) ==
    CASE Called(text) = "Parser::entry" -> Entries(Cals)
      [] Called(text) = "JSCalendar::parse" -> JSCalendarResults(Cals)
      [] Called(text) = "JSContact::parse" -> JSContactResults
      [] OTHER -> {NoReply}

----------------------------------------------------------------------------
(* Inputs *)

RECURSIVE Pad(_)
Pad(n) == IF n = 0 THEN <<>> ELSE <<WS>> \o Pad(n - 1)

\* texts without surrounding whitespace, one or more for each way through
\* the tests convert makes on its source
Bodies ==
    {<<>>,
     <<BeginMarker>>, <<BeginMarker, Other>>, <<BeginMarker, Brace, GroupKey>>,
     <<Brace>>, <<Brace, Other>>, <<Brace, BeginMarker>>,
     <<Brace, GroupKey>>, <<Brace, Other, GroupKey>>,
     <<Brace, GroupKey, CardKey>>, <<Brace, CardKey, GroupKey>>,
     <<Brace, CardKey>>, <<Brace, Other, CardKey>>,
     <<Other>>, <<Other, WS, Other>>, <<Other, BeginMarker>>,
     <<Other, Brace, GroupKey>>, <<GroupKey>>, <<CardKey, Brace>>}

\* the bodies with up to MaxPad whitespace characters around them
Texts ==
    {Pad(p[1]) \o b \o Pad(p[2]) :
        p \in {q \in (0..MaxPad) \X (0..MaxPad) : q[1] + q[2] <= MaxPad},
        b \in Bodies}

\* one text for each family, for the study of the expansion
KeyTexts ==
    {<<>>, <<BeginMarker, Other>>, <<Brace, GroupKey>>, <<Brace, CardKey>>,
     <<Other>>}

RECURSIVE Ascending(_, _)
Ascending(from, n) ==
    IF n = 0 THEN <<>>
    ELSE <<DateTimeInstance(from, Unzoned)>> \o Ascending(from + 1, n - 1)

RECURSIVE Descending(_, _)
Descending(from, n) ==
    IF n = 0 THEN <<>>
    ELSE <<DateTimeInstance(from, Unzoned)>> \o Descending(from - 1, n - 1)

\* a rule with MaxCount instances, emitted earliest first or latest first
Recurring == {Ascending(0, MaxCount), Descending(MaxCount - 1, MaxCount)}

RawInstances ==
    {DateTimeInstance(t, z) : t \in 0..MaxInstant, z \in {Unzoned, Tokyo}}
    \cup {PartialInstance}

RECURSIVE SeqsUpTo(_, _)
SeqsUpTo(S, n) ==
    IF n = 0 THEN {<<>>}
    ELSE LET shorter == SeqsUpTo(S, n - 1)
         IN  shorter \cup {<<x>> \o q : x \in S, q \in {r \in shorter : Len(r) = n - 1}}

\* the calendars of the study of the expansion
Calendars == SeqsUpTo(RawInstances, MaxEvents) \cup Recurring

\* a few calendars, for the study of everything else
BasicCalendars ==
    {<<>>,
     <<DateTimeInstance(1, Unzoned), PartialInstance, DateTimeInstance(0, Tokyo)>>,
     Ascending(0, MaxCount)}

\* SAMPLES: the bundled documents, by family
SampleTexts ==
    {<<BeginMarker, Other>>, <<Brace, GroupKey, Other>>, <<Brace, CardKey, Other>>}

----------------------------------------------------------------------------
(* Specification *)

Init ==
    /\ source = EmptyString
    /\ source_type = "ICalendar"
    /\ conversion = EmptyString
    /\ roundtrip_conversion = EmptyString
    /\ error_message = EmptyString
    /\ occurrences = <<>>
    /\ lib = NoReply
    /\ writes = NoWrites

Store(s) ==
    /\ source' = s.source
    /\ source_type' = s.source_type
    /\ conversion' = s.conversion
    /\ roundtrip_conversion' = s.roundtrip_conversion
    /\ error_message' = s.error_message
    /\ occurrences' = s.occurrences
    /\ writes' = s.writes

\* on:change of the text area: source is set to the text typed, drawn from
\* T, and convert runs
Change(T, Cals) ==
    \E text \in T :
        \E reply \in Replies(text, Cals) :
            \E s \in convert([Cur EXCEPT !.source = text], reply) :
                Store(s) /\ lib' = reply

\* on:click of the sample button: source is set to one of the bundled
\* documents and convert runs
Sample ==
    \E text \in SampleTexts :
        \E reply \in Replies(text, BasicCalendars) :
            \E s \in convert([Cur EXCEPT !.source = text], reply) :
                Store(s) /\ lib' = reply

\* on:click of the convert button: convert runs on the source as it is,
\* and the library, being deterministic, answers as it did
Click == \E s \in convert(Cur, lib) : Store(s) /\ lib' = lib

Next == Change(Texts, BasicCalendars) \/ Sample \/ Click

Spec == Init /\ [][Next]_vars

NextExpand == Change(KeyTexts, Calendars) \/ Sample \/ Click

SpecExpand == Init /\ [][NextExpand]_vars

----------------------------------------------------------------------------
(* Properties *)

\* the cap of the occurrence list
MaxOccurrences == 25

NoResult ==
    /\ conversion = EmptyString
    /\ roundtrip_conversion = EmptyString
    /\ occurrences = <<>>

EmptyInput == is_empty(trim_start(source))
LegacyInput == starts_with(trim_start(source), BeginMarker)
JsonInput == starts_with(trim_start(source), Brace)

\* C1: after convert ran on empty or whitespace-only input there is no
\* result and no error, whatever the earlier invocations left.
C1_EmptyInputLeavesNothing ==
    EmptyInput => NoResult /\ error_message = EmptyString

\* C2: an error and a result are mutually exclusive: with an error set the
\* conversion, the round trip and the occurrences are empty, and with a
\* conversion shown no error is set.
C2_ErrorExcludesResult ==
    /\ error_message # EmptyString => NoResult
    /\ conversion # EmptyString => error_message = EmptyString

\* an error superseded a primary conversion and occurrences already stored
C2_Witness ==
    /\ error_message = BugMessage
    /\ lib.kind = "ICalendar"
    /\ \E i \in 1..Len(lib.instances) : lib.instances[i].dt

Outcome(s) ==
    <<s.source_type, s.conversion, s.roundtrip_conversion, s.occurrences,
      s.error_message>>

Fresh ==
    [source |-> EmptyString, source_type |-> "ICalendar",
     conversion |-> EmptyString, roundtrip_conversion |-> EmptyString,
     error_message |-> EmptyString, occurrences |-> <<>>, writes |-> NoWrites]

\* C3: the outcome of convert depends on the source text and the library's
\* reply alone: what an invocation leaves is what it leaves when run on the
\* same text, with the same reply, from the state after construction.
C3_OutcomeIndependentOfHistory ==
    [][Outcome(Cur)' \in
         {Outcome(s) : s \in convert([Fresh EXCEPT !.source = source'], lib')}]_vars

RoundTripFailed ==
    /\ LegacyInput
    /\ lib.kind \in {"VCard", "ICalendar"}
    /\ ~lib.conv

\* C4 as stated: after a failed round trip of a legacy source the error is
\* reported, the primary conversion and the detected format stay, and only
\* the round-trip text is absent.
C4_RoundTripFailureKeepsPrimary ==
    RoundTripFailed =>
        /\ error_message = BugMessage
        /\ conversion # EmptyString
        /\ source_type = lib.kind
        /\ roundtrip_conversion = EmptyString

\* C4 amended: after a failed round trip of a legacy source the error is
\* reported and the primary conversion is discarded with the round-trip
\* text and the occurrences; the detected format stays set.
C4_RoundTripFailureDiscardsPrimary ==
    RoundTripFailed =>
        /\ error_message = BugMessage
        /\ NoResult
        /\ source_type = lib.kind

\* the round trip of a contact failed after its conversion was stored
C4_Witness == RoundTripFailed /\ lib.kind = "VCard" /\ error_message = BugMessage

ParseSucceeded == lib.kind \in {"VCard", "ICalendar", "Ok"}

\* C5 as stated: the conversion-bug error is reported exactly when the
\* primary conversion succeeded and the inverse conversion was absent; for
\* a JSON source the primary conversion is the fallible one and the inverse
\* always yields a value, so only a legacy source can report it.
C5_BugOnlyFromInverseConversion ==
    error_message = BugMessage <=> RoundTripFailed

\* C5 amended: the conversion-bug error is reported exactly when the parse
\* succeeded and the conversion into the legacy family was absent: the
\* inverse conversion of a legacy source, the primary conversion of a JSON
\* source.  No outcome of the parse step reports it.
C5_BugOnlyFromAbsentConversion ==
    error_message = BugMessage <=> (ParseSucceeded /\ ~lib.conv)

\* the primary conversion of a JSON source was absent
C5_Witness ==
    /\ JsonInput
    /\ lib.kind = "Ok"
    /\ ~lib.conv
    /\ error_message = BugMessage

FailKinds ==
    {"InvalidLine", "UnexpectedComponentEnd", "UnterminatedComponent",
     "TooManyComponents", "Eof"}

\* C6: for a legacy source each failing parse outcome ends the invocation
\* with an error and no result, the error being the message of no other
\* failing outcome and none of the other errors; every parse outcome ends
\* with a result or an error.
C6_LegacyParseErrors ==
    LegacyInput =>
        /\ lib.kind \in FailKinds =>
             /\ error_message # EmptyString
             /\ NoResult
             /\ error_message \notin
                  {BugMessage, NotJsonMessage, UnrecognizedMessage}
             /\ \A e \in Entries({<<>>}) :
                  e.kind \in FailKinds /\ e.kind # lib.kind =>
                      EntryErrorMessage(e) # error_message
        /\ error_message # EmptyString \/ conversion # EmptyString

\* the parser met the end of the file
C6_Witness ==
    /\ LegacyInput
    /\ lib.kind = "Eof"
    /\ error_message = <<"Unexpected end of file">>

Unrecognized ==
    /\ ~EmptyInput
    /\ ~LegacyInput
    /\ ~(JsonInput /\ (contains(source, GroupKey) \/ contains(source, CardKey)))

\* C7 as stated: every unrecognized input reports the generic
\* "Unrecognized format..." message and no result.
C7_UnrecognizedSameMessage ==
    Unrecognized => error_message = UnrecognizedMessage /\ NoResult

\* C7 amended: every unrecognized input reports an error and no result; the
\* message is the generic "Unrecognized format..." one when the text starts
\* with neither marker, and "This does not look like a valid JSCalendar or
\* JSContact." when it starts with the JSON opening character and holds no
\* discriminator.
C7_UnrecognizedTwoMessages ==
    Unrecognized =>
        /\ NoResult
        /\ error_message = IF JsonInput THEN NotJsonMessage ELSE UnrecognizedMessage
        /\ NotJsonMessage # UnrecognizedMessage

\* a JSON object without discriminator was converted
C7_Witness ==
    /\ source = <<Brace, Other>>
    /\ error_message = NotJsonMessage

CalendarConverted ==
    /\ \/ LegacyInput /\ lib.kind = "ICalendar"
       \/ JsonInput /\ contains(source, GroupKey) /\ lib.kind = "Ok"
    /\ lib.conv
    /\ error_message = EmptyString
    /\ conversion # EmptyString

\* C8: the occurrence list is empty unless the latest invocation converted
\* a calendar source with success.
C8_OccurrencesOnlyForCalendar ==
    occurrences # <<>> => CalendarConverted

\* an empty input after an iCalendar conversion: the conversion of the
\* calendar is still there, its occurrences are not
C8_Witness ==
    /\ EmptyInput
    /\ conversion = to_string_pretty("JSCalendar")
    /\ occurrences = <<>>

\* the start instant an occurrence displays
StartInstant(occurrence) ==
    occurrence.from.local - UtcOffset(occurrence.from.zone)

\* C9: the stored occurrences are in ascending order of start instant.
C9_OccurrencesAscending ==
    \A i \in 1..(Len(occurrences) - 1) :
        StartInstant(occurrences[i]) <= StartInstant(occurrences[i + 1])

\* the library emitted a later instance before an earlier one
C9_Witness ==
    /\ Len(occurrences) >= 2
    /\ \E i \in 1..Len(lib.instances) : \E j \in 1..Len(lib.instances) :
          /\ i < j
          /\ lib.instances[i].dt /\ lib.instances[j].dt
          /\ lib.instances[i].start > lib.instances[j].start

\* the instances among the first n of a calendar that have a date-time
RECURSIVE Convertible(_, _)
Convertible(instances, n) ==
    IF n = 0 \/ Len(instances) = 0 THEN 0
    ELSE (IF Head(instances).dt THEN 1 ELSE 0)
         + Convertible(Tail(instances), n - 1)

\* C10: the occurrence list has at most 25 entries, and when it is not
\* empty it has one entry for each instance of the capped expansion that
\* has a date-time.
C10_OccurrencesCapped ==
    /\ Len(occurrences) <= MaxOccurrences
    /\ occurrences # <<>> =>
         Len(occurrences) = Convertible(lib.instances, MaxOccurrences)

\* a calendar with more instances than the cap was expanded
C10_Witness ==
    /\ Len(lib.instances) > MaxOccurrences
    /\ Len(occurrences) = MaxOccurrences

GroupJsonInput == JsonInput /\ contains(source, GroupKey)

\* C11: for a source that starts with the JSON opening character and holds
\* "Group", with or without "Card", convert takes the JSCalendar path: no
\* unrecognized-format message is reported, a parse failure reports "Failed
\* to parse JSCalendar: " with the library's message and no result, and a
\* success leaves the detected format JSCalendar.
C11_GroupTakesCalendarPath ==
    GroupJsonInput =>
        /\ error_message \notin {UnrecognizedMessage, NotJsonMessage}
        /\ lib.kind = "Err" =>
             /\ error_message = <<"Failed to parse JSCalendar: ", lib.detail[1]>>
             /\ NoResult
        /\ error_message = EmptyString => source_type = "JSCalendar"

\* a source holding both discriminators failed to parse
C11_Witness ==
    /\ GroupJsonInput
    /\ contains(source, CardKey)
    /\ lib.kind = "Err"
    /\ error_message = <<"Failed to parse JSCalendar: ", lib.detail[1]>>

\* the domain of a format
DomainOf(t) == IF t \in {"ICalendar", "JSCalendar"} THEN "calendar" ELSE "contact"

\* C12: counterpart is total and involutive on the four source formats and
\* pairs each format with the other format of its domain; the detected
\* format is always one of the four.
C12_CounterpartInvolutive ==
    /\ source_type \in SourceTypes
    /\ \A f \in SourceTypes :
          /\ counterpart(f) \in SourceTypes
          /\ counterpart(counterpart(f)) = f
          /\ counterpart(f) # f
          /\ DomainOf(counterpart(f)) = DomainOf(f)

\* a JSContact source was converted: the result is headed by the
\* counterpart of the detected format
C12_Witness ==
    /\ source_type = "JSContact"
    /\ conversion = to_string(counterpart(source_type))

\* C13 as stated: in one convert invocation no output signal is written
\* more than once.
C13_EachSignalWrittenOnce ==
    \A f \in Signals : writes[f] <= 1

ICalendarRoundTripFailed == RoundTripFailed /\ lib.kind = "ICalendar"

\* C13 amended: in one convert invocation source_type and the round-trip
\* text are written at most once, the conversion and the error message at
\* most twice and the occurrences at most three times.  The conversion is
\* written twice exactly when the round trip of a legacy source failed, and
\* the occurrences three times exactly when that source was an iCalendar:
\* there the occurrences and the primary conversion are stored and then
\* cleared by the error.
C13_WritesPerInvocation ==
    /\ writes["source_type"] <= 1
    /\ writes["roundtrip_conversion"] <= 1
    /\ writes["conversion"] <= 2
    /\ writes["error_message"] <= 2
    /\ writes["occurrences"] <= 3
    /\ writes["conversion"] = 2 <=> RoundTripFailed
    /\ writes["occurrences"] = 3 <=> ICalendarRoundTripFailed

\* the occurrences of an iCalendar were reset, stored and cleared
C13_Witness ==
    /\ ICalendarRoundTripFailed
    /\ writes["occurrences"] = 3
    /\ writes["conversion"] = 2
    /\ NoResult

====
